---- MODULE Spec2Model ----
(***************************************************************************)
(* Verification orchestrator of parity-bitcoin                              *)
(* (verification/src/chain_verifier.rs, verification/src/consensus_limits.rs). *)
(*                                                                         *)
(* BackwardsCompatibleChainVerifier::verify_block is modelled one store     *)
(* call per step, so that a store mutation by another thread can fall       *)
(* between any two of its store reads.  The store, the structural checkers  *)
(* and the contextual acceptors are collaborators whose code is in other    *)
(* crates; they are modelled from their documented contract.               *)
(*                                                                         *)
(* Option<T> is modelled as a sequence: None is << >>, Some(x) is <<x>>.    *)
(* Result<(), E> is a record with a field kind: Ok is [kind |-> "Ok"].      *)
(***************************************************************************)
EXTENDS Integers, Sequences, FiniteSets, TLC

VARIABLES
    known,      \* store: hashes of the blocks the store holds
    canon,      \* store: block number -> hash mapping, canon[n + 1] is block n
    best,       \* store: best block, [hash, number]
    call,       \* per verifier thread: the verify call in flight
    threads,    \* the verifier threads that exist
    hdr,        \* verify_block_header: two calls made so far, kept side by side
    mp,         \* verify_mempool_transaction: the last call made
    lim,        \* LegacyLimits: the instances created and what their accessors returned
    active      \* the limits policy the node holds for the calls it makes

vars == <<known, canon, best, call, threads, hdr, mp, lim, active>>
storeVars == <<known, canon, best>>

(***************************************************************************)
(* Bounds                                                                  *)
(***************************************************************************)
\* block positions 1..MaxBlock of the block tree, position 0 is genesis
MaxBlock == 4
\* LegacyLimits instances created
MaxInstances == 2

None == << >>
Some(x) == <<x>>

(***************************************************************************)
(* consensus_limits.rs                                                     *)
(***************************************************************************)
LEGACY_MAX_BLOCK_SIZE == 1000000
LEGACY_MAX_BLOCK_SIGOPS == 20000

\* LegacyLimits::new(): a unit struct, the instance carries no data
LegacyLimits_new == [impl |-> "LegacyLimits"]

\* another implementation of trait ConsensusLimits, as a caller may supply
RaisedLimits == [impl |-> "Raised", sigops |-> 80000, size |-> 4000000, txsize |-> 4000000]

\* mutant: the sigops ceiling is taken from the size constant
max_block_sigops_Size(self) ==
    IF self.impl = "LegacyLimits" THEN LEGACY_MAX_BLOCK_SIZE ELSE self.size

max_block_sigops(self) ==
    IF self.impl = "LegacyLimits" THEN LEGACY_MAX_BLOCK_SIGOPS ELSE self.sigops

max_block_size(self) ==
    IF self.impl = "LegacyLimits" THEN LEGACY_MAX_BLOCK_SIZE ELSE self.size

\* mutant: the transaction size ceiling is taken from the wrong constant
max_transaction_size_Sigops(self) ==
    IF self.impl = "LegacyLimits" THEN LEGACY_MAX_BLOCK_SIGOPS ELSE self.txsize

max_transaction_size(self) ==
    IF self.impl = "LegacyLimits" THEN LEGACY_MAX_BLOCK_SIZE ELSE self.txsize

Policies == {LegacyLimits_new, RaisedLimits}

(***************************************************************************)
(* Results and errors (crate error, crate db)                               *)
(***************************************************************************)
Ok == [kind |-> "Ok"]
ErrDatabase(e) == [kind |-> "Database", db |-> e]
ErrSize(n) == [kind |-> "Size", size |-> n]
ErrFuturisticTimestamp == [kind |-> "FuturisticTimestamp"]
ErrCoinbaseOverspend(m, a) == [kind |-> "CoinbaseOverspend", expected_max |-> m, actual |-> a]
ErrTransaction(i, e) == [kind |-> "Transaction", index |-> i, error |-> e]
ErrMaximumSigops == [kind |-> "MaximumSigops"]

(***************************************************************************)
(* Blocks.  A hash is <<position, body>>: the position in the block tree    *)
(* and the name of the body, so that blocks of different content have       *)
(* different hashes.                                                        *)
(***************************************************************************)
Bodies == {"ok", "big", "overspend", "future"}
Positions == 1..MaxBlock
Parent(p) == (p - 1) \div 2
Genesis == <<0, "ok">>

\* the instants the wall clock is read at
Times == {1000, 9000}

\* Amounts are u64 satoshis.  They are held as <<hi, lo>> = hi * 10^9 + lo,
\* lo < 10^9, since 5,000,000,001 does not fit TLC's 32-bit integers.
AmtAdd(a, b) ==
    <<a[1] + b[1] + ((a[2] + b[2]) \div 1000000000), (a[2] + b[2]) % 1000000000>>
AmtLe(a, b) == a[1] < b[1] \/ (a[1] = b[1] /\ a[2] <= b[2])
RECURSIVE AmtSum(_)
AmtSum(s) == IF s = << >> THEN <<0, 0>> ELSE AmtAdd(Head(s), AmtSum(Tail(s)))

\* block reward at the heights of the model (no halving below 210000):
\* 5,000,000,000
BlockReward == <<5, 0>>

CoinbaseValue(v) == IF v = "overspend" THEN <<5, 1>> ELSE <<5, 0>>
SerializedSize(v) == IF v = "big" THEN LEGACY_MAX_BLOCK_SIZE + 1 ELSE 285
\* header time: the "future" body is more than two hours ahead of the first
\* clock reading and not ahead of the second
HeaderTime(v) == IF v = "future" THEN 1000 + 7200 + 1 ELSE 500

MkBlock(p, v) ==
    [ hash |-> <<p, v>>,
      previous_header_hash |-> <<Parent(p), "ok">>,
      time |-> HeaderTime(v),
      size |-> SerializedSize(v),
      transactions |-> << [ hash |-> <<"tx", p, v, 0>>,
                            coinbase |-> TRUE,
                            inputs |-> << >>,
                            outputs |-> << CoinbaseValue(v) >>,
                            sigops |-> 0 ] >> ]

Blocks == { MkBlock(p, v) : p \in Positions, v \in Bodies }

OutPoint(h, i) == [hash |-> h, index |-> i]
TxErr(k) == [kind |-> k]
TxErrInput(i) == [kind |-> "Input", index |-> i]

\* a - b for a >= b
AmtSub(a, b) ==
    IF a[2] >= b[2] THEN <<a[1] - b[1], a[2] - b[2]>>
    ELSE <<a[1] - b[1] - 1, a[2] + 1000000000 - b[2]>>

\* The genesis block of the test chains: its coinbase and a transaction
\* with one output of 50 for later blocks to spend.
ReferenceTx ==
    [ hash |-> <<"tx", 0, "ok", 1>>, coinbase |-> FALSE, inputs |-> << >>,
      outputs |-> << <<0, 50>> >>, sigops |-> 0 ]
GenesisBlock ==
    [MkBlock(0, "ok") EXCEPT !.transactions = Append(@, ReferenceTx)]

\* the block the store holds under a hash
StoredBlock(h) == IF h = Genesis THEN GenesisBlock ELSE MkBlock(h[1], h[2])

RefOut == OutPoint(ReferenceTx.hash, 0)
\* the coinbase output of the parent of the block at position p
ParentCoinbaseOut(p) == OutPoint(<<"tx", Parent(p), "ok", 0>>, 0)

\* Blocks with transactions after the coinbase, after the tests of
\* chain_verifier.rs:
\*   spend       one transaction spending the reference output
\*   immature    a transaction spending the parent block's coinbase
\*   chain_ok    50 -> (30, 20), then 30 spent by the next transaction
\*   chain_over  50 -> (19, 31), then 19 spent for 20 and 31 spent for 20
\*   sigops      11,000 and 11,001 signature operations in two transactions
\*   sigops_one  20,001 signature operations in the first transaction
TxBodies == {"spend", "immature", "chain_ok", "chain_over", "sigops", "sigops_one"}

BlockTx(p, v, k, inputs, outputs, sigops) ==
    [ hash |-> <<"tx", p, v, k>>, coinbase |-> FALSE, inputs |-> inputs,
      outputs |-> outputs, sigops |-> sigops ]

BodyTransactions(p, v) ==
    CASE v = "spend" ->
           << BlockTx(p, v, 1, <<RefOut>>, << <<0, 1>> >>, 1) >>
      [] v = "immature" ->
           << BlockTx(p, v, 1, <<ParentCoinbaseOut(p)>>, << <<0, 2>> >>, 1) >>
      [] v = "chain_ok" ->
           << BlockTx(p, v, 1, <<RefOut>>, << <<0, 30>>, <<0, 20>> >>, 1),
              BlockTx(p, v, 2, <<OutPoint(<<"tx", p, v, 1>>, 0)>>, << <<0, 30>> >>, 1) >>
      [] v = "chain_over" ->
           << BlockTx(p, v, 1, <<RefOut>>, << <<0, 19>>, <<0, 31>> >>, 1),
              BlockTx(p, v, 2, <<OutPoint(<<"tx", p, v, 1>>, 0)>>, << <<0, 20>> >>, 1),
              BlockTx(p, v, 3, <<OutPoint(<<"tx", p, v, 1>>, 1)>>, << <<0, 20>> >>, 1) >>
      [] v = "sigops" ->
           << BlockTx(p, v, 1, <<RefOut>>, << <<0, 50>> >>, 11000),
              BlockTx(p, v, 2, <<OutPoint(<<"tx", p, v, 1>>, 0)>>, << <<0, 50>> >>, 11001) >>
      [] v = "sigops_one" ->
           << BlockTx(p, v, 1, <<RefOut>>, << <<0, 50>> >>, 20001),
              BlockTx(p, v, 2, <<OutPoint(<<"tx", p, v, 1>>, 0)>>, << <<0, 50>> >>, 0) >>

MkTxBlock(p, v) ==
    [MkBlock(p, v) EXCEPT !.transactions = @ \o BodyTransactions(p, v)]

TxBlocks == { MkTxBlock(p, v) : p \in Positions, v \in TxBodies }

(***************************************************************************)
(* The store (crate db), from its contract                                  *)
(***************************************************************************)
\* Store::best_block()
StoreBestBlock == best

\* Store::block_hash(number)
StoreBlockHash(n) == IF n + 1 \in DOMAIN canon THEN Some(canon[n + 1]) ELSE None

\* Store::block_number(hash)
StoreBlockNumber(h) ==
    IF \E i \in DOMAIN canon : canon[i] = h
    THEN Some((CHOOSE i \in DOMAIN canon : canon[i] = h) - 1)
    ELSE None

IsCanon(h) == StoreBlockNumber(h) # None

ParentHash(h) == <<Parent(h[1]), "ok">>

\* the stored blocks from the canon ancestor of h (exclusive) up to h
RECURSIVE SideRoute(_)
SideRoute(h) == IF IsCanon(h) THEN << >> ELSE Append(SideRoute(ParentHash(h)), h)

\* number of the nearest canon ancestor of h
RECURSIVE Ancestor(_)
Ancestor(h) == IF IsCanon(h) THEN StoreBlockNumber(h)[1] ELSE Ancestor(ParentHash(h))

\* Store::block_origin(header)
StoreBlockOrigin(header) ==
    IF header.hash \in known THEN [kind |-> "KnownBlock"]
    ELSE IF best.hash = header.previous_header_hash
    THEN [kind |-> "CanonChain", block_number |-> best.number + 1]
    ELSE IF header.previous_header_hash \notin known
    THEN ErrDatabase("UnknownParent")
    ELSE LET a == Ancestor(header.previous_header_hash)
             route == SideRoute(header.previous_header_hash)
             n == a + Len(route) + 1
             o == [ ancestor |-> a,
                    canonized_route |-> route,
                    decanonized_route |-> SubSeq(canon, a + 2, best.number + 1),
                    block_number |-> n ]
         IN  IF n > best.number
             THEN [kind |-> "SideChainBecomingCanonChain", origin |-> o]
             ELSE [kind |-> "SideChain", origin |-> o]

\* Store::fork(origin): the branch's ancestry presented as canon; canon itself
\* is left alone.  Fails when the descriptor no longer fits the store.
StoreFork(o) ==
    IF \/ best.number # o.ancestor + Len(o.decanonized_route)
       \/ SubSeq(canon, o.ancestor + 2, best.number + 1) # o.decanonized_route
    THEN ErrDatabase("CannotDecanonize")
    ELSE IF \E i \in DOMAIN o.canonized_route : IsCanon(o.canonized_route[i])
    THEN ErrDatabase("CannotCanonize")
    ELSE [ kind |-> "Ok",
           fork |-> [ kind |-> "fork",
                      origin |-> o,
                      canon |-> SubSeq(canon, 1, o.ancestor + 1) \o o.canonized_route ] ]

\* SharedStore::as_store(): the store's direct view
DirectView == [kind |-> "direct"]

(***************************************************************************)
(* Structural pre-verification and contextual acceptance (verify_chain,    *)
(* accept_chain), from their contract                                       *)
(***************************************************************************)
RECURSIVE SigopsSum(_)
SigopsSum(txs) == IF txs = << >> THEN 0 ELSE Head(txs).sigops + SigopsSum(Tail(txs))

\* HeaderVerifier::new(header, network, current_time).check()
HeaderVerifierCheck(header, network, current_time) ==
    IF header.time > current_time + 7200 THEN ErrFuturisticTimestamp ELSE Ok

\* ChainVerifier::new(block, network, current_time, limits).check()
ChainVerifierCheck(block, network, current_time, limits) ==
    IF block.size > max_block_size(limits) THEN ErrSize(block.size)
    ELSE IF SigopsSum(block.transactions) > max_block_sigops(limits) THEN ErrMaximumSigops
    ELSE HeaderVerifierCheck(block, network, current_time)

\* the canon chain a view presents: the store's own, or a fork's
ViewCanon(view) == IF view.kind = "direct" THEN canon ELSE view.canon

\* the transactions of a view's canon blocks, with their heights
ViewTransactions(view) ==
    LET vc == ViewCanon(view)
    IN  UNION { { [tx |-> StoredBlock(vc[i]).transactions[j], height |-> i - 1] :
                    j \in DOMAIN StoredBlock(vc[i]).transactions } :
                i \in DOMAIN vc }

\* a view as TransactionOutputProvider
ViewTransactionOutput(view, prevout) ==
    LET found == { e \in ViewTransactions(view) :
                     /\ e.tx.hash = prevout.hash
                     /\ prevout.index + 1 \in DOMAIN e.tx.outputs }
    IN  IF found = {} THEN None
        ELSE Some((CHOOSE e \in found : TRUE).tx.outputs[prevout.index + 1])

\* a view as TransactionMetaProvider
ViewTransactionMeta(view, h) ==
    LET found == { e \in ViewTransactions(view) : e.tx.hash = h }
    IN  IF found = {} THEN None
        ELSE LET e == CHOOSE e \in found : TRUE
             IN  Some([height |-> e.height, coinbase |-> e.tx.coinbase])

\* the block as TransactionOutputProvider for its transaction number
\* tx_idx (from 0): outputs of the transactions before it
BlockTransactionOutput(block, prevout, tx_idx) ==
    LET found == { j \in DOMAIN block.transactions :
                     /\ j - 1 < tx_idx
                     /\ block.transactions[j].hash = prevout.hash
                     /\ prevout.index + 1 \in DOMAIN block.transactions[j].outputs }
    IN  IF found = {} THEN None
        ELSE Some(block.transactions[CHOOSE j \in found : TRUE].outputs[prevout.index + 1])

\* DuplexTransactionOutputProvider::new(store, block) of acceptance
AcceptorTransactionOutput(view, block, prevout, tx_idx) ==
    IF ViewTransactionOutput(view, prevout) # None
    THEN ViewTransactionOutput(view, prevout)
    ELSE BlockTransactionOutput(block, prevout, tx_idx)

\* the depth a coinbase output is spendable at
COINBASE_MATURITY == 100

\* TransactionAcceptor of the transaction at position i (from 1) of the
\* block: inputs exist, spent coinbases are mature, sigops under the ceiling
TransactionAcceptorCheck(view, block, block_number, i, limits) ==
    LET tx == block.transactions[i]
        Missing(k) == AcceptorTransactionOutput(view, block, tx.inputs[k], i - 1) = None
        Immature(k) ==
            LET m == ViewTransactionMeta(view, tx.inputs[k].hash)
            IN  /\ m # None
                /\ m[1].coinbase
                /\ block_number < m[1].height + COINBASE_MATURITY
    IN  IF \E k \in DOMAIN tx.inputs : Missing(k)
        THEN Some(TxErrInput((CHOOSE k \in DOMAIN tx.inputs :
                                /\ Missing(k)
                                /\ \A j \in 1..(k - 1) : ~Missing(j)) - 1))
        ELSE IF \E k \in DOMAIN tx.inputs : Immature(k) THEN Some(TxErr("Maturity"))
        ELSE IF tx.sigops > max_block_sigops(limits) THEN Some(TxErr("MaxSigops"))
        ELSE None

\* ChainAcceptor::new(store, network, block, block_number, deployments, limits).check():
\* block sigops; the coinbase claim against reward and fees, where a
\* transaction spending more than its resolved inputs is an overspend;
\* then the transactions in order
ChainAcceptorCheck(view, network, block, block_number, deployments, limits) ==
    LET txs == block.transactions
        rest == 2..Len(txs)
        Incoming(i) ==
            AmtSum([ k \in DOMAIN txs[i].inputs |->
                     LET o == AcceptorTransactionOutput(view, block, txs[i].inputs[k], i - 1)
                     IN  IF o = None THEN <<0, 0>> ELSE o[1] ])
        Spends(i) == AmtSum(txs[i].outputs)
        Overspent(i) == ~AmtLe(Spends(i), Incoming(i))
        fees == AmtSum([ k \in 1..(Len(txs) - 1) |->
                         AmtSub(Incoming(k + 1), Spends(k + 1)) ])
        reward == AmtAdd(fees, BlockReward)
        claim == Spends(1)
        Failing(i) == TransactionAcceptorCheck(view, block, block_number, i, limits) # None
        First(P(_)) == CHOOSE i \in rest : P(i) /\ \A j \in 2..(i - 1) : ~P(j)
    IN  IF SigopsSum(txs) > max_block_sigops(limits) THEN ErrMaximumSigops
        ELSE IF \E i \in rest : Overspent(i)
        THEN ErrTransaction(First(Overspent) - 1, TxErr("Overspend"))
        ELSE IF ~AmtLe(claim, reward) THEN ErrCoinbaseOverspend(reward, claim)
        ELSE IF \E i \in rest : Failing(i)
        THEN ErrTransaction(First(Failing) - 1,
                            TransactionAcceptorCheck(view, block, block_number,
                                                     First(Failing), limits)[1])
        ELSE Ok

(***************************************************************************)
(* BackwardsCompatibleChainVerifier                                         *)
(***************************************************************************)
\* the fields set by BackwardsCompatibleChainVerifier::new
Network == "Unitest"
Deployments_new == "Deployments"

Threads == {"v1", "v2"}

IdleCall ==
    [ pc |-> "idle", block |-> None, limits |-> None, current_time |-> None,
      phase |-> "pre", lhs |-> None, number |-> None, rhs |-> None,
      origin |-> None, view |-> None, block_number |-> None,
      result |-> None, panic |-> None, returned |-> None,
      \* history of the call: the store operations asked, the origin a fork
      \* was asked for, the arguments acceptance ran with, the error a
      \* collaborator produced
      ops |-> << >>, forked |-> None, accepted |-> None, raised |-> None ]

Upd(c, r) == call' = [call EXCEPT ![c] = r]
Op(c, name) == Append(call[c].ops, name)

\* mutant: the error of pre-verification is dropped (no `?`)
VerifyBlockPreVerify_NoEarlyReturn(c, b, l, t) ==
    /\ c \in threads
    /\ call[c].pc = "idle"
    /\ Upd(c, [IdleCall EXCEPT !.block = Some(b), !.limits = Some(l),
                               !.current_time = Some(t), !.pc = "assert_hash"])
    /\ UNCHANGED <<storeVars, threads, hdr, mp, lim, active>>

\* verify_block, lines 35-38: capture the time, run pre-verification, return
\* its error if it fails
VerifyBlockPreVerify(c, b, l, t) ==
    /\ c \in threads
    /\ call[c].pc = "idle"
    /\ LET r == ChainVerifierCheck(b, Network, t, l)
           started == [IdleCall EXCEPT !.block = Some(b), !.limits = Some(l),
                                       !.current_time = Some(t)]
       IN  IF r # Ok
           THEN Upd(c, [started EXCEPT !.pc = "done", !.result = Some(r),
                                       !.raised = Some(r)])
           ELSE Upd(c, [started EXCEPT !.pc = "assert_hash"])
    /\ UNCHANGED <<storeVars, threads, hdr, mp, lim, active>>

\* assert_eq!, left operand: Some(self.store.best_block().hash)
AssertReadBestHash(c) ==
    /\ c \in threads
    /\ call[c].pc = "assert_hash"
    /\ Upd(c, [call[c] EXCEPT !.pc = "assert_number",
                              !.lhs = Some(StoreBestBlock.hash),
                              !.ops = Op(c, "best_block")])
    /\ UNCHANGED <<storeVars, threads, hdr, mp, lim, active>>

\* assert_eq!, argument of the right operand: self.store.best_block().number
AssertReadBestNumber(c) ==
    /\ c \in threads
    /\ call[c].pc = "assert_number"
    /\ Upd(c, [call[c] EXCEPT !.pc = "assert_block_hash",
                              !.number = Some(StoreBestBlock.number),
                              !.ops = Op(c, "best_block")])
    /\ UNCHANGED <<storeVars, threads, hdr, mp, lim, active>>

\* mutant: the comparison does not abort the call (its outcome is dropped)
AssertCompare_NoAbort(c) ==
    /\ c \in threads
    /\ call[c].pc = "assert_block_hash"
    /\ LET rhs == StoreBlockHash(call[c].number[1])
           read == [call[c] EXCEPT !.ops = Op(c, "block_hash"), !.rhs = Some(rhs)]
       IN  IF call[c].phase = "pre"
           THEN Upd(c, [read EXCEPT !.pc = "block_origin"])
           ELSE Upd(c, [read EXCEPT !.pc = "done", !.result = Some(Ok)])
    /\ UNCHANGED <<storeVars, threads, hdr, mp, lim, active>>

\* assert_eq!, right operand self.store.block_hash(number), and the comparison;
\* after the second assertion the call returns Ok(())
AssertCompare(c) ==
    /\ c \in threads
    /\ call[c].pc = "assert_block_hash"
    /\ LET rhs == StoreBlockHash(call[c].number[1])
           read == [call[c] EXCEPT !.ops = Op(c, "block_hash"), !.rhs = Some(rhs)]
       IN  IF call[c].lhs # rhs
           THEN Upd(c, [read EXCEPT !.pc = "panicked", !.panic = Some("assert_eq")])
           ELSE IF call[c].phase = "pre"
           THEN Upd(c, [read EXCEPT !.pc = "block_origin"])
           ELSE Upd(c, [read EXCEPT !.pc = "done", !.result = Some(Ok)])
    /\ UNCHANGED <<storeVars, threads, hdr, mp, lim, active>>

\* mutant: the error of block_origin is dropped and the block taken to extend
\* the best chain
BlockOriginDispatch_IgnoreError(c) ==
    /\ c \in threads
    /\ call[c].pc = "block_origin"
    /\ LET r == StoreBlockOrigin(call[c].block[1])
           read == [call[c] EXCEPT !.ops = Op(c, "block_origin")]
           next == [ CanonChain |-> "canon_accept", SideChain |-> "side_fork",
                     SideChainBecomingCanonChain |-> "becoming_fork" ]
       IN  IF r.kind = "Database"
           THEN Upd(c, [read EXCEPT !.pc = "canon_accept",
                           !.origin = Some([kind |-> "CanonChain",
                                            block_number |-> best.number + 1])])
           ELSE IF r.kind = "KnownBlock"
           THEN Upd(c, [read EXCEPT !.pc = "panicked", !.origin = Some(r),
                                    !.panic = Some("unreachable")])
           ELSE Upd(c, [read EXCEPT !.pc = next[r.kind], !.origin = Some(r)])
    /\ UNCHANGED <<storeVars, threads, hdr, mp, lim, active>>

\* mutant: a known block is reported as verified instead of being fatal
BlockOriginDispatch_KnownIsOk(c) ==
    /\ c \in threads
    /\ call[c].pc = "block_origin"
    /\ LET r == StoreBlockOrigin(call[c].block[1])
           read == [call[c] EXCEPT !.ops = Op(c, "block_origin")]
           next == [ CanonChain |-> "canon_accept", SideChain |-> "side_fork",
                     SideChainBecomingCanonChain |-> "becoming_fork" ]
       IN  IF r.kind = "Database"
           THEN Upd(c, [read EXCEPT !.pc = "done", !.result = Some(r),
                                    !.raised = Some(r)])
           ELSE IF r.kind = "KnownBlock"
           THEN Upd(c, [read EXCEPT !.pc = "done", !.origin = Some(r),
                                    !.result = Some(Ok)])
           ELSE Upd(c, [read EXCEPT !.pc = next[r.kind], !.origin = Some(r)])
    /\ UNCHANGED <<storeVars, threads, hdr, mp, lim, active>>

\* let block_origin = self.store.block_origin(&block.header)?; match block_origin
BlockOriginDispatch(c) ==
    /\ c \in threads
    /\ call[c].pc = "block_origin"
    /\ LET r == StoreBlockOrigin(call[c].block[1])
           read == [call[c] EXCEPT !.ops = Op(c, "block_origin")]
       IN  IF r.kind = "Database"
           THEN Upd(c, [read EXCEPT !.pc = "done", !.result = Some(r),
                                    !.raised = Some(r)])
           ELSE IF r.kind = "KnownBlock"
           THEN Upd(c, [read EXCEPT !.pc = "panicked", !.origin = Some(r),
                                    !.panic = Some("unreachable")])
           ELSE IF r.kind = "CanonChain"
           THEN Upd(c, [read EXCEPT !.pc = "canon_accept", !.origin = Some(r)])
           ELSE IF r.kind = "SideChain"
           THEN Upd(c, [read EXCEPT !.pc = "side_fork", !.origin = Some(r)])
           ELSE Upd(c, [read EXCEPT !.pc = "becoming_fork", !.origin = Some(r)])
    /\ UNCHANGED <<storeVars, threads, hdr, mp, lim, active>>

\* mutant: Ok(()) right after acceptance, the second assertion left out
Accepted_NoRecheck(c, view, n) ==
    LET r == ChainAcceptorCheck(view, Network, call[c].block[1], n,
                                Deployments_new, call[c].limits[1])
        ran == [call[c] EXCEPT !.view = Some(view), !.block_number = Some(n),
                               !.accepted = Some([ view |-> view, block_number |-> n,
                                                   block |-> call[c].block[1],
                                                   limits |-> call[c].limits[1] ])]
    IN  IF r # Ok
        THEN [ran EXCEPT !.pc = "done", !.result = Some(r), !.raised = Some(r)]
        ELSE [ran EXCEPT !.pc = "done", !.result = Some(Ok)]

\* mutant: acceptance is given the node's policy of the moment, not the
\* limits of the call
Accepted_ActivePolicy(c, view, n) ==
    LET r == ChainAcceptorCheck(view, Network, call[c].block[1], n,
                                Deployments_new, active)
        ran == [call[c] EXCEPT !.view = Some(view), !.block_number = Some(n),
                               !.accepted = Some([ view |-> view, block_number |-> n,
                                                   block |-> call[c].block[1],
                                                   limits |-> active ])]
    IN  IF r # Ok
        THEN [ran EXCEPT !.pc = "done", !.result = Some(r), !.raised = Some(r)]
        ELSE [ran EXCEPT !.pc = "assert_hash", !.phase = "post"]

\* mutant: chain_acceptor.check() without `?`, its error dropped
Accepted_Unchecked(c, view, n) ==
    [call[c] EXCEPT !.view = Some(view), !.block_number = Some(n),
                    !.accepted = Some([ view |-> view, block_number |-> n,
                                        block |-> call[c].block[1],
                                        limits |-> call[c].limits[1] ]),
                    !.pc = "assert_hash", !.phase = "post"]

\* chain_acceptor.check()? of the three arms: an error returns at once, success
\* goes on to the second assertion
Accepted(c, view, n) ==
    LET r == ChainAcceptorCheck(view, Network, call[c].block[1], n,
                                Deployments_new, call[c].limits[1])
        ran == [call[c] EXCEPT !.view = Some(view), !.block_number = Some(n),
                               !.accepted = Some([ view |-> view, block_number |-> n,
                                                   block |-> call[c].block[1],
                                                   limits |-> call[c].limits[1] ])]
    IN  IF r # Ok
        THEN [ran EXCEPT !.pc = "done", !.result = Some(r), !.raised = Some(r)]
        ELSE [ran EXCEPT !.pc = "assert_hash", !.phase = "post"]

\* mutant: self.store.fork(origin).unwrap()
Forked_Unwrap(c, origin, next) ==
    LET r == StoreFork(origin)
        asked == [call[c] EXCEPT !.ops = Op(c, "fork"), !.forked = Some(origin)]
    IN  IF r.kind # "Ok"
        THEN [asked EXCEPT !.pc = "panicked", !.panic = Some("unwrap")]
        ELSE [asked EXCEPT !.pc = next, !.view = Some(r.fork)]

\* let fork = self.store.fork(origin)?
Forked(c, origin, next) ==
    LET r == StoreFork(origin)
        asked == [call[c] EXCEPT !.ops = Op(c, "fork"), !.forked = Some(origin)]
    IN  IF r.kind # "Ok"
        THEN [asked EXCEPT !.pc = "done", !.result = Some(r), !.raised = Some(r)]
        ELSE [asked EXCEPT !.pc = next, !.view = Some(r.fork)]

\* mutant: the canon arm hands acceptance a height far above the block's
AcceptCanonChain_Height(c) ==
    /\ c \in threads
    /\ call[c].pc = "canon_accept"
    /\ Upd(c, Accepted(c, DirectView, call[c].origin[1].block_number + COINBASE_MATURITY))
    /\ UNCHANGED <<storeVars, threads, hdr, mp, lim, active>>

\* BlockOrigin::CanonChain { block_number }
AcceptCanonChain(c) ==
    /\ c \in threads
    /\ call[c].pc = "canon_accept"
    /\ Upd(c, Accepted(c, DirectView, call[c].origin[1].block_number))
    /\ UNCHANGED <<storeVars, threads, hdr, mp, lim, active>>

\* BlockOrigin::SideChain(origin): fork
ForkSideChain(c) ==
    /\ c \in threads
    /\ call[c].pc = "side_fork"
    /\ Upd(c, Forked(c, call[c].origin[1].origin, "side_accept"))
    /\ UNCHANGED <<storeVars, threads, hdr, mp, lim, active>>

\* mutant: the fork is kept in a field of the verifier shared by its calls,
\* and acceptance runs against the fork asked last by any call
AcceptSideChain_SharedView(c) ==
    /\ c \in threads
    /\ call[c].pc = "side_accept"
    /\ \E d \in threads :
          /\ call[d].forked # None /\ call[d].view # None
          /\ d # c => call[d].accepted = None
          /\ Upd(c, Accepted(c, call[d].view[1], call[c].origin[1].origin.block_number))
    /\ UNCHANGED <<storeVars, threads, hdr, mp, lim, active>>

\* mutant: the side-chain arm accepts against self.store.as_store()
AcceptSideChain_Direct(c) ==
    /\ c \in threads
    /\ call[c].pc = "side_accept"
    /\ Upd(c, Accepted(c, DirectView, call[c].origin[1].origin.block_number))
    /\ UNCHANGED <<storeVars, threads, hdr, mp, lim, active>>

\* BlockOrigin::SideChain(origin): acceptance against fork.store()
AcceptSideChain(c) ==
    /\ c \in threads
    /\ call[c].pc = "side_accept"
    /\ Upd(c, Accepted(c, call[c].view[1], call[c].origin[1].origin.block_number))
    /\ UNCHANGED <<storeVars, threads, hdr, mp, lim, active>>

\* BlockOrigin::SideChainBecomingCanonChain(origin): fork
ForkBecomingCanonChain(c) ==
    /\ c \in threads
    /\ call[c].pc = "becoming_fork"
    /\ Upd(c, Forked(c, call[c].origin[1].origin, "becoming_accept"))
    /\ UNCHANGED <<storeVars, threads, hdr, mp, lim, active>>

\* mutant: the becoming-canon arm accepts against self.store.as_store()
AcceptBecomingCanonChain_Direct(c) ==
    /\ c \in threads
    /\ call[c].pc = "becoming_accept"
    /\ Upd(c, Accepted(c, DirectView, call[c].origin[1].origin.block_number))
    /\ UNCHANGED <<storeVars, threads, hdr, mp, lim, active>>

\* mutant: the becoming-canon arm commits the reorganization itself
AcceptBecomingCanonChain_Commit(c) ==
    /\ c \in threads
    /\ call[c].pc = "becoming_accept"
    /\ Upd(c, Accepted(c, call[c].view[1], call[c].origin[1].origin.block_number))
    /\ canon' = call[c].view[1].canon
    /\ best' = [ hash |-> call[c].view[1].canon[Len(call[c].view[1].canon)],
                 number |-> Len(call[c].view[1].canon) - 1 ]
    /\ UNCHANGED <<known, threads, hdr, mp, lim, active>>

\* BlockOrigin::SideChainBecomingCanonChain(origin): acceptance against fork.store()
AcceptBecomingCanonChain(c) ==
    /\ c \in threads
    /\ call[c].pc = "becoming_accept"
    /\ Upd(c, Accepted(c, call[c].view[1], call[c].origin[1].origin.block_number))
    /\ UNCHANGED <<storeVars, threads, hdr, mp, lim, active>>

\* mutant: the wrapper maps every error to one kind of its own
VerifyReturn_Wrap(c) ==
    /\ c \in threads
    /\ call[c].pc = "done"
    /\ Upd(c, [call[c] EXCEPT !.pc = "returned",
                              !.returned = IF call[c].result = Some(Ok) THEN Some(Ok)
                                           ELSE Some([kind |-> "Verification"])])
    /\ UNCHANGED <<storeVars, threads, hdr, mp, lim, active>>

\* Verify::verify: let result = self.verify_block(block, limits); trace!; result
VerifyReturn(c) ==
    /\ c \in threads
    /\ call[c].pc = "done"
    /\ Upd(c, [call[c] EXCEPT !.pc = "returned", !.returned = call[c].result])
    /\ UNCHANGED <<storeVars, threads, hdr, mp, lim, active>>

\* the caller has the outcome and the thread is free for the next call; a
\* panic ends the thread, and its name is reused by a new one
CallEnds(c) ==
    /\ c \in threads
    /\ call[c].pc \in {"returned", "panicked"}
    /\ Upd(c, IdleCall)
    /\ UNCHANGED <<storeVars, threads, hdr, mp, lim, active>>

VerifyStep(c) ==
    \/ \E b \in Blocks, l \in Policies, t \in Times : VerifyBlockPreVerify(c, b, l, t)
    \/ AssertReadBestHash(c)
    \/ AssertReadBestNumber(c)
    \/ AssertCompare(c)
    \/ BlockOriginDispatch(c)
    \/ AcceptCanonChain(c)
    \/ ForkSideChain(c)
    \/ AcceptSideChain(c)
    \/ ForkBecomingCanonChain(c)
    \/ AcceptBecomingCanonChain(c)
    \/ VerifyReturn(c)
    \/ CallEnds(c)

(***************************************************************************)
(* The store's owner: another thread inserts verified blocks and moves the  *)
(* canonical tip (insert, canonize; a reorganization is a series of         *)
(* decanonize and canonize committed together)                              *)
(***************************************************************************)
StoreInsert(h) ==
    /\ h \notin known
    /\ ParentHash(h) \in known
    /\ known' = known \cup {h}
    /\ UNCHANGED <<canon, best, call, threads, hdr, mp, lim, active>>

StoreCanonize(h) ==
    /\ h \in known
    /\ ~IsCanon(h)
    /\ ParentHash(h) = best.hash
    /\ canon' = Append(canon, h)
    /\ best' = [hash |-> h, number |-> best.number + 1]
    /\ UNCHANGED <<known, call, threads, hdr, mp, lim, active>>

StoreReorganize(h) ==
    /\ h \in known
    /\ ~IsCanon(h)
    /\ ParentHash(h) # best.hash
    /\ Ancestor(h) + Len(SideRoute(h)) > best.number
    /\ canon' = SubSeq(canon, 1, Ancestor(h) + 1) \o SideRoute(h)
    /\ best' = [hash |-> h, number |-> Ancestor(h) + Len(SideRoute(h))]
    /\ UNCHANGED <<known, call, threads, hdr, mp, lim, active>>

StoreStep ==
    \E p \in Positions :
        \/ StoreInsert(<<p, "ok">>)
        \/ StoreCanonize(<<p, "ok">>)
        \/ StoreReorganize(<<p, "ok">>)

StoreInit ==
    /\ known = {Genesis}
    /\ canon = <<Genesis>>
    /\ best = [hash |-> Genesis, number |-> 0]

NoHeaderCall == [called |-> FALSE]
NoMempoolCall == [called |-> FALSE]
NoLimits == [instances |-> 0, seen |-> << >>]

Init ==
    /\ StoreInit
    /\ threads = {"v1"}
    /\ call = [c \in Threads |-> IdleCall]
    /\ hdr = <<NoHeaderCall, NoHeaderCall>>
    /\ mp = NoMempoolCall
    /\ lim = NoLimits
    /\ active = LegacyLimits_new

Next ==
    \/ \E c \in Threads : VerifyStep(c)
    \/ StoreStep

Spec == Init /\ [][Next]_vars

\* the same verifier and store owner, the blocks submitted carrying
\* transactions after the coinbase; their headers are never ahead of the
\* clock, which is read at one instant
TxTime == CHOOSE t \in Times : \A u \in Times : u <= t
VerifyTxStep(c) ==
    \/ \E b \in TxBlocks, l \in Policies : VerifyBlockPreVerify(c, b, l, TxTime)
    \/ AssertReadBestHash(c)
    \/ AssertReadBestNumber(c)
    \/ AssertCompare(c)
    \/ BlockOriginDispatch(c)
    \/ AcceptCanonChain(c)
    \/ ForkSideChain(c)
    \/ AcceptSideChain(c)
    \/ ForkBecomingCanonChain(c)
    \/ AcceptBecomingCanonChain(c)
    \/ VerifyReturn(c)
    \/ CallEnds(c)

NextAccept ==
    \/ \E c \in Threads : VerifyTxStep(c)
    \/ StoreStep

SpecAccept == Init /\ [][NextAccept]_vars

(***************************************************************************)
(* verify_block_header                                                     *)
(***************************************************************************)
\* the block header providers a caller passes: the chain store itself, or a
\* provider that knows no header
HeaderProviders == {"store", "empty"}

\* the headers submitted: those of the blocks at the first two positions
HeaderPositions == {1, 2}
HeaderBodies == {"ok", "future"}
BlockHeader(p, v) == [previous_header_hash |-> <<Parent(p), "ok">>, time |-> HeaderTime(v)]

\* BlockHeaderProvider::block_header(hash) of the provider handed in
ProviderKnowsHeader(provider, h) == provider = "store" /\ h \in known

\* IndexedBlockHeader::new(hash, header)
IndexedBlockHeader_new(hash, header) ==
    [ hash |-> hash, previous_header_hash |-> header.previous_header_hash,
      time |-> header.time ]

\* the record of one call: its arguments, whether the store held the block
\* when it ran, the store operations it made, and its result
HeaderCall(provider, hash, header, t, ops, r) ==
    [ called |-> TRUE, provider |-> provider, hash |-> hash, header |-> header,
      current_time |-> t, block_known |-> hash \in known, ops |-> ops, result |-> r ]

\* mutant: the header is also checked against the provider (parent lookup)
VerifyBlockHeader_ChecksParent(slot, provider, hash, header, t) ==
    /\ ~hdr[slot].called
    /\ hdr' = [hdr EXCEPT ![slot] =
                HeaderCall(provider, hash, header, t, <<"block_header">>,
                    IF ~ProviderKnowsHeader(provider, header.previous_header_hash)
                    THEN ErrDatabase("UnknownParent")
                    ELSE HeaderVerifierCheck(IndexedBlockHeader_new(hash, header),
                                             Network, t))]
    /\ UNCHANGED <<storeVars, call, threads, mp, lim, active>>

\* verify_block_header(&self, _block_header_provider, hash, header)
VerifyBlockHeader(slot, provider, hash, header, t) ==
    /\ ~hdr[slot].called
    /\ hdr' = [hdr EXCEPT ![slot] =
                HeaderCall(provider, hash, header, t, << >>,
                    HeaderVerifierCheck(IndexedBlockHeader_new(hash, header),
                                        Network, t))]
    /\ UNCHANGED <<storeVars, call, threads, mp, lim, active>>

\* the caller has the outcome of a call and drops it
HeaderCallEnds(slot) ==
    /\ hdr[slot].called
    /\ hdr' = [hdr EXCEPT ![slot] = NoHeaderCall]
    /\ UNCHANGED <<storeVars, call, threads, mp, lim, active>>

HeaderStep ==
    \E slot \in {1, 2}, provider \in HeaderProviders, p \in HeaderPositions,
       v \in HeaderBodies, t \in Times :
        VerifyBlockHeader(slot, provider, <<p, v>>, BlockHeader(p, v), t)

\* the state with no verify thread: the other operations are called alone
InitNoVerify ==
    /\ StoreInit
    /\ threads = {}
    /\ call = [c \in Threads |-> IdleCall]
    /\ hdr = <<NoHeaderCall, NoHeaderCall>>
    /\ mp = NoMempoolCall
    /\ lim = NoLimits
    /\ active = LegacyLimits_new

NextHeader ==
    \/ HeaderStep
    \/ \E slot \in {1, 2} : HeaderCallEnds(slot)
    \/ StoreStep

SpecHeader == InitNoVerify /\ [][NextHeader]_vars


(***************************************************************************)
(* verify_mempool_transaction                                               *)
(***************************************************************************)
\* an unconfirmed transaction with one output of 50, the coinbase output of
\* the block at position 1, and an output no transaction created
MemOut == OutPoint(<<"mem", 1>>, 0)
ChainOut == OutPoint(<<"tx", 1, "ok", 0>>, 0)
NoOut == OutPoint(<<"nowhere">>, 0)

\* the transactions submitted: one input, one output
MkTx(prevout, value, size) ==
    [ coinbase |-> FALSE, inputs |-> <<prevout>>, outputs |-> <<value>>,
      size |-> size, sigops |-> 1 ]
Transactions ==
    { MkTx(o, v, z) : o \in {MemOut, ChainOut, NoOut},
                      v \in {<<0, 40>>, <<0, 60>>},
                      z \in {200, LEGACY_MAX_BLOCK_SIZE + 1} }

\* the heights a transaction is verified for: the coinbase of block 1 is
\* immature at the first and mature at the second
Heights == {2, 150}

\* the store as TransactionOutputProvider: outputs of the canon blocks
StoreTransactionOutput(prevout) == ViewTransactionOutput(DirectView, prevout)

\* the store as TransactionMetaProvider: height and coinbase flag of a
\* transaction of a canon block
StoreTransactionMeta(h) == ViewTransactionMeta(DirectView, h)

\* the prevout providers a caller passes: an empty pool, a pool holding the
\* unconfirmed transaction (its output unspent, or already spent by another
\* pool transaction), and a pool that also resolves confirmed outputs
PrevoutProviders ==
    { [kind |-> "pool", outputs |-> {}, spent |-> {}, chain |-> FALSE],
      [kind |-> "pool", outputs |-> {MemOut}, spent |-> {}, chain |-> FALSE],
      [kind |-> "pool", outputs |-> {MemOut}, spent |-> {MemOut}, chain |-> FALSE],
      [kind |-> "pool", outputs |-> {MemOut}, spent |-> {}, chain |-> TRUE] }

\* duplex_store::NoopStore
NoopStore == [kind |-> "noop"]

\* TransactionOutputProvider::transaction_output of a provider
ProviderTransactionOutput(provider, prevout) ==
    IF provider.kind = "noop" THEN None
    ELSE IF prevout \in provider.outputs THEN Some(<<0, 50>>)
    ELSE IF provider.chain THEN StoreTransactionOutput(prevout)
    ELSE None

\* TransactionOutputProvider::is_spent of a provider
ProviderIsSpent(provider, prevout) ==
    provider.kind # "noop" /\ prevout \in provider.spent

\* DuplexTransactionOutputProvider: the first provider, then the second
DuplexTransactionOutput(duplex, prevout) ==
    IF ProviderTransactionOutput(duplex[1], prevout) # None
    THEN ProviderTransactionOutput(duplex[1], prevout)
    ELSE ProviderTransactionOutput(duplex[2], prevout)

DuplexIsSpent(duplex, prevout) ==
    ProviderIsSpent(duplex[1], prevout) \/ ProviderIsSpent(duplex[2], prevout)

\* MemoryPoolTransactionVerifier::new(tx, limits).check()
MemoryPoolTransactionVerifierCheck(tx, limits) ==
    IF tx.inputs = << >> \/ tx.outputs = << >> THEN TxErr("Empty")
    ELSE IF tx.coinbase THEN TxErr("MemoryPoolCoinbase")
    ELSE IF tx.size > max_transaction_size(limits) THEN TxErr("MaxSize")
    ELSE IF tx.sigops > max_block_sigops(limits) THEN TxErr("MaxSigops")
    ELSE Ok

\* MemoryPoolTransactionAcceptor::new(meta, output_store, network, tx, height,
\* time, deployments, headers, max_block_sigops).check()
MemoryPoolTransactionAcceptorCheck(output_store, network, tx, height, time, deployments, max_sigops) ==
    LET ins == DOMAIN tx.inputs
        missing == { i \in ins : DuplexTransactionOutput(output_store, tx.inputs[i]) = None }
        immature(i) ==
            LET m == StoreTransactionMeta(tx.inputs[i].hash)
            IN  m # None /\ m[1].coinbase /\ height < m[1].height + COINBASE_MATURITY
        available == AmtSum([i \in ins |->
                        DuplexTransactionOutput(output_store, tx.inputs[i])[1]])
    IN  IF missing # {}
        THEN TxErrInput((CHOOSE i \in missing : \A j \in missing : i <= j) - 1)
        ELSE IF \E i \in ins : immature(i) THEN TxErr("Maturity")
        ELSE IF ~AmtLe(AmtSum(tx.outputs), available) THEN TxErr("Overspend")
        ELSE IF tx.sigops > max_sigops THEN TxErr("MaxSigops")
        ELSE IF \E i \in ins : DuplexIsSpent(output_store, tx.inputs[i])
        THEN TxErr("UsingSpentOutput")
        ELSE Ok

\* mutant: the duplex store falls back on the chain store
OutputStore_StoreFallback(prevout_provider) ==
    <<prevout_provider, [kind |-> "pool", outputs |-> {}, spent |-> {}, chain |-> TRUE]>>

\* mutant: the duplex store is built without the caller's provider
OutputStore_NoProvider(prevout_provider) == <<NoopStore, NoopStore>>

\* let noop = NoopStore;
\* let output_store = DuplexTransactionOutputProvider::new(prevout_provider, &noop)
OutputStore(prevout_provider) == <<prevout_provider, NoopStore>>

\* the record of a call: its arguments, what the provider and the chain held
\* for the input when it ran, and its result
MempoolCall(provider, height, time, tx, limits, r) ==
    [ called |-> TRUE, provider |-> provider, height |-> height, time |-> time,
      transaction |-> tx, limits |-> limits,
      in_provider |-> ProviderTransactionOutput(provider, tx.inputs[1]) # None,
      in_chain |-> StoreTransactionOutput(tx.inputs[1]) # None,
      meta |-> StoreTransactionMeta(tx.inputs[1].hash),
      result |-> r ]

\* verify_mempool_transaction(&self, prevout_provider, height, time, transaction, limits)
VerifyMempoolTransaction(provider, height, time, tx, limits) ==
    /\ ~mp.called
    /\ LET pre == MemoryPoolTransactionVerifierCheck(tx, limits)
           r == IF pre # Ok THEN pre
                ELSE MemoryPoolTransactionAcceptorCheck(
                        OutputStore(provider), Network, tx, height, time,
                        Deployments_new, max_block_sigops(limits))
       IN  mp' = MempoolCall(provider, height, time, tx, limits, r)
    /\ UNCHANGED <<storeVars, call, threads, hdr, lim, active>>

\* the caller has the outcome
MempoolCallEnds ==
    /\ mp.called
    /\ mp' = NoMempoolCall
    /\ UNCHANGED <<storeVars, call, threads, hdr, lim, active>>

MempoolStep ==
    \E provider \in PrevoutProviders, height \in Heights, time \in Times,
       tx \in Transactions, limits \in Policies :
        VerifyMempoolTransaction(provider, height, time, tx, limits)

NextMempool ==
    \/ MempoolStep
    \/ MempoolCallEnds
    \/ StoreStep

SpecMempool == InitNoVerify /\ [][NextMempool]_vars


(***************************************************************************)
(* LegacyLimits, shared by threads (trait ConsensusLimits : Send + Sync)     *)
(***************************************************************************)
LimitThreads == {"t1", "t2"}
Accessors == {"max_block_sigops", "max_block_size", "max_transaction_size"}

\* a call of one accessor of the trait on an instance
CallAccessor(a, self) ==
    CASE a = "max_block_sigops" -> max_block_sigops(self)
      [] a = "max_block_size" -> max_block_size(self)
      [] a = "max_transaction_size" -> max_transaction_size(self)

\* LegacyLimits::new(), by any thread
LegacyLimitsCreate ==
    /\ lim.instances < MaxInstances
    /\ lim' = [ instances |-> lim.instances + 1,
                seen |-> Append(lim.seen, [a \in Accessors |-> None]) ]
    /\ UNCHANGED <<storeVars, call, threads, hdr, mp, active>>

\* thread t calls accessor a on instance i; the last value each accessor
\* returned is kept with the thread that got it
LimitsRead(i, t, a) ==
    /\ i \in 1..lim.instances
    /\ lim' = [lim EXCEPT !.seen[i][a] =
                Some([value |-> CallAccessor(a, LegacyLimits_new), thread |-> t])]
    /\ UNCHANGED <<storeVars, call, threads, hdr, mp, active>>

NextLimits ==
    \/ LegacyLimitsCreate
    \/ \E i \in 1..MaxInstances, t \in LimitThreads, a \in Accessors : LimitsRead(i, t, a)

SpecLimits == InitNoVerify /\ [][NextLimits]_vars


(***************************************************************************)
(* The node's limits policy, replaced while calls run.  One thread makes    *)
(* the calls, one at a time, each with the policy the node holds when the   *)
(* call is made; another thread replaces the policy.                        *)
(***************************************************************************)
PolicyReplace ==
    /\ \E l \in Policies \ {active} : active' = l
    /\ UNCHANGED <<storeVars, call, threads, hdr, mp, lim>>

\* blocks and transactions the two policies decide differently: a block of
\* 1,000,001 bytes, a block of 22,001 sigops, a transaction of 1,000,001
\* bytes and a transaction of 30,000 sigops
PolicyBlocks ==
    { MkBlock(p, v) : p \in Positions, v \in {"ok", "big"} }
        \cup { MkTxBlock(p, "sigops") : p \in Positions }
HeavyTx == [MkTx(MemOut, <<0, 40>>, 200) EXCEPT !.sigops = 30000]
PolicyTransactions ==
    { MkTx(MemOut, <<0, 40>>, 200), MkTx(MemOut, <<0, 40>>, LEGACY_MAX_BLOCK_SIZE + 1),
      HeavyTx }

VerifyPolicyStep(c) ==
    \/ \E b \in PolicyBlocks : ~mp.called /\ VerifyBlockPreVerify(c, b, active, TxTime)
    \/ AssertReadBestHash(c)
    \/ AssertReadBestNumber(c)
    \/ AssertCompare(c)
    \/ BlockOriginDispatch(c)
    \/ AcceptCanonChain(c)
    \/ ForkSideChain(c)
    \/ AcceptSideChain(c)
    \/ ForkBecomingCanonChain(c)
    \/ AcceptBecomingCanonChain(c)
    \/ VerifyReturn(c)
    \/ CallEnds(c)

MempoolPolicyStep ==
    \E provider \in PrevoutProviders, height \in Heights, tx \in PolicyTransactions :
        /\ \A c \in threads : call[c].pc = "idle"
        /\ VerifyMempoolTransaction(provider, height, TxTime, tx, active)

NextPolicy ==
    \/ \E c \in Threads : VerifyPolicyStep(c)
    \/ MempoolPolicyStep
    \/ MempoolCallEnds
    \/ StoreStep
    \/ PolicyReplace

SpecPolicy == Init /\ [][NextPolicy]_vars


(***************************************************************************)
(* Two threads calling verify on one verifier, the store left alone by its  *)
(* owner while they run                                                     *)
(***************************************************************************)
\* the store as its owner left it: blocks 1 and 2 inserted on top of
\* genesis, one of them made canon
StoreShapes ==
    { [known |-> {Genesis, <<1, "ok">>, <<2, "ok">>}, canon |-> <<Genesis, <<p, "ok">> >>] :
        p \in {1, 2} }

TwoBlocks ==
    { MkBlock(p, v) : p \in Positions, v \in {"ok", "overspend"} }
        \cup { MkTxBlock(p, "immature") : p \in Positions }

InitTwo ==
    /\ \E s \in StoreShapes :
          /\ known = s.known
          /\ canon = s.canon
          /\ best = [hash |-> s.canon[Len(s.canon)], number |-> Len(s.canon) - 1]
    /\ threads = Threads
    /\ call = [c \in Threads |-> IdleCall]
    /\ hdr = <<NoHeaderCall, NoHeaderCall>>
    /\ mp = NoMempoolCall
    /\ lim = NoLimits
    /\ active = LegacyLimits_new

VerifyTwoStep(c) ==
    \/ \E b \in TwoBlocks : VerifyBlockPreVerify(c, b, active, TxTime)
    \/ AssertReadBestHash(c)
    \/ AssertReadBestNumber(c)
    \/ AssertCompare(c)
    \/ BlockOriginDispatch(c)
    \/ AcceptCanonChain(c)
    \/ ForkSideChain(c)
    \/ AcceptSideChain(c)
    \/ ForkBecomingCanonChain(c)
    \/ AcceptBecomingCanonChain(c)
    \/ VerifyReturn(c)
    \/ CallEnds(c)

NextTwo == \E c \in Threads : VerifyTwoStep(c)

SpecTwo == InitTwo /\ [][NextTwo]_vars

\* verify_block run from start to end with nothing in between: its result
\* or its panic, from the block, the limits, the clock and the store
SoloOutcome(b, l, t) ==
    LET pre == ChainVerifierCheck(b, Network, t, l)
        o == StoreBlockOrigin(b)
        Returns(r) == [result |-> Some(r), panic |-> None]
        Panics(p) == [result |-> None, panic |-> Some(p)]
    IN  IF pre # Ok THEN Returns(pre)
        ELSE IF Some(StoreBestBlock.hash) # StoreBlockHash(StoreBestBlock.number)
        THEN Panics("assert_eq")
        ELSE IF o.kind = "Database" THEN Returns(o)
        ELSE IF o.kind = "KnownBlock" THEN Panics("unreachable")
        ELSE IF o.kind = "CanonChain"
        THEN Returns(ChainAcceptorCheck(DirectView, Network, b, o.block_number,
                                        Deployments_new, l))
        ELSE IF StoreFork(o.origin).kind # "Ok" THEN Returns(StoreFork(o.origin))
        ELSE Returns(ChainAcceptorCheck(StoreFork(o.origin).fork, Network, b,
                                        o.origin.block_number, Deployments_new, l))


(***************************************************************************)
(* Properties of verify                                                     *)
(***************************************************************************)
InFlight(c) == c \in threads /\ call[c].pc # "idle"
Finished(c) == call[c].pc \in {"done", "returned"}
TheBlock(c) == call[c].block[1]
PreVerified(c) ==
    ChainVerifierCheck(TheBlock(c), Network, call[c].current_time[1], call[c].limits[1])
ResultKinds ==
    {"Ok", "Database", "Size", "FuturisticTimestamp", "CoinbaseOverspend",
     "Transaction", "MaximumSigops"}

\* C1, as claimed: whenever verify has returned for a block whose parent the
\* store does not hold, what it returned is Error::Database(UnknownParent).
C1_EveryOrphanUnknownParent ==
    \A c \in Threads :
        (call[c].pc = "returned" /\ TheBlock(c).previous_header_hash \notin known)
            => call[c].returned = Some(ErrDatabase("UnknownParent"))

\* C1, amended: for a block whose parent the store does not hold, verify never
\* runs contextual acceptance and never returns Ok; if the block passes
\* structural pre-verification, what verify returns is
\* Error::Database(UnknownParent), and otherwise it is the structural error.
C1_OrphanRejected ==
    \A c \in Threads :
        (InFlight(c) /\ TheBlock(c).previous_header_hash \notin known)
            => /\ call[c].accepted = None
               /\ call[c].result # Some(Ok)
               /\ call[c].pc = "returned" =>
                    call[c].returned = IF PreVerified(c) = Ok
                                       THEN Some(ErrDatabase("UnknownParent"))
                                       ELSE Some(PreVerified(c))

C1_Witness ==
    \E c \in Threads :
        /\ call[c].pc = "returned"
        /\ TheBlock(c).previous_header_hash \notin known
        /\ call[c].returned = Some(ErrDatabase("UnknownParent"))

\* C2: a call whose block fails structural pre-verification has returned that
\* error without a single store operation: no best_block, block_hash,
\* block_origin or fork was asked, and acceptance did not run.
C2_StructuralFailureIsStoreFree ==
    \A c \in Threads :
        (InFlight(c) /\ PreVerified(c) # Ok)
            => /\ Finished(c)
               /\ call[c].result = Some(PreVerified(c))
               /\ call[c].ops = << >>
               /\ call[c].forked = None
               /\ call[c].accepted = None
               /\ call[c].lhs = None /\ call[c].number = None /\ call[c].origin = None

C2_Witness ==
    \E c \in Threads :
        /\ call[c].pc = "returned"
        /\ PreVerified(c) = ErrSize(LEGACY_MAX_BLOCK_SIZE + 1)
        /\ call[c].returned = Some(ErrSize(LEGACY_MAX_BLOCK_SIZE + 1))
        /\ call[c].ops = << >>

\* C3: no step of verify, whatever the origin and the outcome, changes the
\* store's best block or its number -> hash mapping (a fork request included).
C3_VerifyLeavesCanonAlone ==
    [][(\E c \in Threads : VerifyStep(c)) => (canon' = canon /\ best' = best)]_vars

\* a block that makes its side chain the longer one was verified with success,
\* and the best block is still the one of the old chain
C3_Witness ==
    \E c \in Threads :
        /\ call[c].pc = "returned"
        /\ call[c].returned = Some(Ok)
        /\ call[c].origin[1].kind = "SideChainBecomingCanonChain"
        /\ best.hash # TheBlock(c).previous_header_hash
        /\ best.number < call[c].block_number[1]

\* C4: acceptance runs against the view the origin selects.  CanonChain: the
\* direct view at the origin's block_number, and no fork is ever asked.
\* SideChain and SideChainBecomingCanonChain: the fork asked is the one of
\* that origin, and acceptance runs against the forked view at
\* origin.block_number.
C4_ViewByOrigin ==
    \A c \in Threads :
        /\ (call[c].origin # None /\ call[c].origin[1].kind = "CanonChain")
            => /\ call[c].forked = None
               /\ \A i \in DOMAIN call[c].ops : call[c].ops[i] # "fork"
               /\ call[c].accepted # None =>
                    /\ call[c].accepted[1].view = DirectView
                    /\ call[c].accepted[1].block_number = call[c].origin[1].block_number
        /\ (call[c].origin # None
                /\ call[c].origin[1].kind \in {"SideChain", "SideChainBecomingCanonChain"})
            => /\ call[c].forked \in {None, Some(call[c].origin[1].origin)}
               /\ call[c].accepted # None =>
                    /\ call[c].forked = Some(call[c].origin[1].origin)
                    /\ call[c].accepted[1].view.kind = "fork"
                    /\ call[c].accepted[1].view.origin = call[c].origin[1].origin
                    /\ call[c].accepted[1].block_number
                            = call[c].origin[1].origin.block_number
        /\ call[c].accepted # None => call[c].origin # None

C4_Witness ==
    \E c \in Threads :
        /\ call[c].accepted # None
        /\ call[c].origin[1].kind = "SideChain"
        /\ call[c].accepted[1].view.kind = "fork"

\* C5: a call whose header the store classified as KnownBlock has panicked:
\* it has no result, neither Ok nor an error, and acceptance did not run.
C5_KnownBlockIsFatal ==
    \A c \in Threads :
        (call[c].origin # None /\ call[c].origin[1].kind = "KnownBlock")
            => /\ call[c].pc = "panicked"
               /\ call[c].result = None
               /\ call[c].returned = None
               /\ call[c].accepted = None

C5_Witness ==
    \E c \in Threads :
        /\ call[c].pc = "panicked"
        /\ call[c].panic = Some("unreachable")
        /\ TheBlock(c).hash \in known

C7_ErrorsForwarded ==
    \A c \in Threads :
        /\ Finished(c)
            => call[c].result = IF call[c].raised = None THEN Some(Ok) ELSE call[c].raised
        /\ call[c].pc = "returned" => call[c].returned = call[c].result
        /\ (call[c].pc = "returned" /\ call[c].raised # None)
            => /\ call[c].ops = << >> => call[c].returned = Some(PreVerified(c))
               /\ (call[c].ops # << >> /\ call[c].accepted = None)
                    => /\ call[c].returned[1].kind = "Database"
                       /\ call[c].returned[1].db = "UnknownParent"
                            <=> call[c].ops[Len(call[c].ops)] = "block_origin"
               /\ (call[c].accepted # None /\ TheBlock(c).hash[2] = "overspend")
                    => call[c].returned
                        = Some([ kind |-> "CoinbaseOverspend",
                                 expected_max |-> <<5, 0>>, actual |-> <<5, 1>> ])

C7_Witness ==
    \E c \in Threads :
        /\ call[c].pc = "returned"
        /\ call[c].accepted # None
        /\ call[c].returned = Some(ErrCoinbaseOverspend(<<5, 0>>, <<5, 1>>))

(***************************************************************************)
(* Properties of verify_block_header                                        *)
(***************************************************************************)
\* C8: two calls of verify_block_header with the same hash, header and current
\* time have the same result, whatever the store held at each call, whether
\* or not it held the block, and whichever provider was passed; a call reads
\* nothing from the store or the provider, and its step writes nothing to the
\* store.
C8_HeaderCheckIgnoresChainState ==
    /\ [](\A i \in {1, 2} :
            hdr[i].called
                => /\ hdr[i].ops = << >>
                   /\ \A j \in {1, 2} :
                        ( /\ hdr[j].called
                          /\ hdr[j].hash = hdr[i].hash
                          /\ hdr[j].header = hdr[i].header
                          /\ hdr[j].current_time = hdr[i].current_time )
                            => hdr[j].result = hdr[i].result)
    /\ [][HeaderStep => UNCHANGED storeVars]_vars

\* the same header verified once with its block in the store and once
\* without, through different providers
C8_Witness ==
    /\ hdr[1].called /\ hdr[2].called
    /\ hdr[1].hash = hdr[2].hash
    /\ hdr[1].header = hdr[2].header
    /\ hdr[1].current_time = hdr[2].current_time
    /\ hdr[1].block_known /\ ~hdr[2].block_known
    /\ hdr[1].provider # hdr[2].provider
    /\ hdr[1].result = hdr[2].result

(***************************************************************************)
(* Properties of verify_mempool_transaction                                 *)
(***************************************************************************)
\* C9: a call succeeds when the transaction passes pre-verification, its
\* input is the unspent output of an unconfirmed transaction that only the
\* caller's prevout provider supplies, and it spends no more than that
\* output; a call does not succeed when neither the provider nor the
\* confirmed chain holds the output its input refers to.
C9_MempoolPrevouts ==
    /\ ( /\ mp.called
         /\ MemoryPoolTransactionVerifierCheck(mp.transaction, mp.limits) = Ok
         /\ mp.transaction.inputs[1] = MemOut
         /\ mp.in_provider /\ ~mp.in_chain
         /\ ~ProviderIsSpent(mp.provider, MemOut)
         /\ AmtLe(AmtSum(mp.transaction.outputs), <<0, 50>>) )
            => mp.result = Ok
    /\ (mp.called /\ ~mp.in_provider /\ ~mp.in_chain)
            => mp.result.kind \notin {"Ok"}

C9_Witness ==
    /\ mp.called
    /\ mp.transaction.inputs[1] = MemOut
    /\ mp.in_provider /\ ~mp.in_chain
    /\ ~mp.provider.chain
    /\ mp.result = Ok

\* the other half of C9: an input that nobody holds is refused as missing
C9_WitnessMissing ==
    /\ mp.called
    /\ ~mp.in_provider /\ ~mp.in_chain
    /\ mp.result = TxErrInput(0)

(***************************************************************************)
(* Properties of LegacyLimits                                               *)
(***************************************************************************)
\* C10: on every LegacyLimits instance, every call of max_block_size returns
\* 1,000,000, of max_block_sigops 20,000 and of max_transaction_size
\* 1,000,000, whichever thread calls and whatever was called before.
C10_LegacyLimitsValues ==
    \A i \in 1..lim.instances :
        /\ lim.seen[i]["max_block_size"] # None
            => lim.seen[i]["max_block_size"][1].value = 1000000
        /\ lim.seen[i]["max_block_sigops"] # None
            => lim.seen[i]["max_block_sigops"][1].value = 20000
        /\ lim.seen[i]["max_transaction_size"] # None
            => lim.seen[i]["max_transaction_size"][1].value = 1000000

\* two instances, each read by a different thread
C10_Witness ==
    /\ lim.instances >= 2
    /\ \A a \in Accessors : lim.seen[1][a] # None /\ lim.seen[2][a] # None
    /\ lim.seen[1]["max_transaction_size"][1].thread = "t1"
    /\ lim.seen[2]["max_transaction_size"][1].thread = "t2"
    /\ lim.seen[1]["max_transaction_size"][1].value
            = lim.seen[2]["max_transaction_size"][1].value

(***************************************************************************)
(* Properties of verify on blocks with transactions                         *)
(***************************************************************************)
\* C11: a block of admissible size whose signature operations, summed over
\* all its transactions, exceed the ceiling of the limits passed (20,000 for
\* LegacyLimits) never gets past pre-verification: the call neither panics
\* nor reaches the store, and what it holds and returns is the block-level
\* Error::MaximumSigops, not an Error::Transaction, whichever transaction
\* carries the excess.
C11_AggregateSigopsRejected ==
    \A c \in Threads :
        LET b == TheBlock(c)
            l == call[c].limits[1]
            over == \/ SigopsSum(b.transactions) > max_block_sigops(l)
                    \/ /\ l = LegacyLimits_new
                       /\ SigopsSum(b.transactions) > LEGACY_MAX_BLOCK_SIGOPS
        IN  (InFlight(c) /\ b.size <= max_block_size(l) /\ over)
            => /\ Finished(c)
               /\ call[c].result = Some(ErrMaximumSigops)
               /\ call[c].ops = << >>
               /\ call[c].accepted = None
               /\ call[c].returned \in {None, Some(ErrMaximumSigops)}

\* 11,000 + 11,001 against 20,000: no transaction exceeds the ceiling alone
C11_Witness ==
    \E c \in Threads :
        /\ InFlight(c)
        /\ call[c].returned = Some(ErrMaximumSigops)
        /\ call[c].limits = Some(LegacyLimits_new)
        /\ SigopsSum(TheBlock(c).transactions) = 22001
        /\ \A i \in DOMAIN TheBlock(c).transactions :
              TheBlock(c).transactions[i].sigops <= LEGACY_MAX_BLOCK_SIGOPS

\* a step of contextual acceptance, the view it reads and the height it is
\* given
AcceptStep(c) == AcceptCanonChain(c) \/ AcceptSideChain(c) \/ AcceptBecomingCanonChain(c)
AcceptView(c) == IF call[c].pc = "canon_accept" THEN DirectView ELSE call[c].view[1]
AcceptNumber(c) ==
    IF call[c].pc = "canon_accept" THEN call[c].origin[1].block_number
    ELSE call[c].origin[1].origin.block_number
RestOf(c) == 2..Len(TheBlock(c).transactions)

\* transaction i (from 1) of the block spends a coinbase output the view
\* holds less than COINBASE_MATURITY blocks below the block's height
SpendsImmatureCoinbase(c, i) ==
    \E k \in DOMAIN TheBlock(c).transactions[i].inputs :
        LET m == ViewTransactionMeta(AcceptView(c), TheBlock(c).transactions[i].inputs[k].hash)
        IN  /\ m # None
            /\ m[1].coinbase
            /\ AcceptNumber(c) < m[1].height + COINBASE_MATURITY

\* the value transaction i's inputs resolve to, in the view or in the
\* transactions before it in the block
ResolvedInputs(c, i) ==
    LET tx == TheBlock(c).transactions[i]
    IN  AmtSum([ k \in DOMAIN tx.inputs |->
                 LET o == AcceptorTransactionOutput(AcceptView(c), TheBlock(c),
                                                    tx.inputs[k], i - 1)
                 IN  IF o = None THEN <<0, 0>> ELSE o[1] ])
AllInputsResolve(c, i) ==
    \A k \in DOMAIN TheBlock(c).transactions[i].inputs :
        AcceptorTransactionOutput(AcceptView(c), TheBlock(c),
                                  TheBlock(c).transactions[i].inputs[k], i - 1) # None
Covered(c, i) ==
    /\ AllInputsResolve(c, i)
    /\ AmtLe(AmtSum(TheBlock(c).transactions[i].outputs), ResolvedInputs(c, i))

\* nothing else is wrong with the block: sigops under the ceiling, the
\* coinbase claims no more than the reward
SoundBesidesTransactions(c) ==
    /\ SigopsSum(TheBlock(c).transactions) <= max_block_sigops(call[c].limits[1])
    /\ AmtLe(AmtSum(TheBlock(c).transactions[1].outputs), BlockReward)

\* C12: when acceptance runs on a block in which a transaction spends a
\* coinbase output that is not yet COINBASE_MATURITY blocks deep (every
\* transaction covered by its inputs, nothing else wrong), the call fails
\* with Error::Transaction(i, Maturity), i the index from 0 of the first
\* such transaction.
C12_ImmatureCoinbaseSpend ==
    [][ \A c \in Threads :
          ( /\ AcceptStep(c)
            /\ SoundBesidesTransactions(c)
            /\ \A i \in RestOf(c) : Covered(c, i)
            /\ \E i \in RestOf(c) : SpendsImmatureCoinbase(c, i) )
          => LET i == CHOOSE i \in RestOf(c) :
                        /\ SpendsImmatureCoinbase(c, i)
                        /\ \A j \in 2..(i - 1) : ~SpendsImmatureCoinbase(c, j)
             IN  /\ call'[c].pc = "done"
                 /\ call'[c].result = Some(ErrTransaction(i - 1, TxErr("Maturity"))) ]_vars

\* the transaction right after the coinbase spends the coinbase of the
\* previous block: index 1
C12_Witness ==
    \E c \in Threads :
        /\ InFlight(c)
        /\ call[c].returned = Some(ErrTransaction(1, TxErr("Maturity")))
        /\ TheBlock(c).transactions[2].inputs[1]
              = OutPoint(StoredBlock(TheBlock(c).previous_header_hash).transactions[1].hash, 0)

\* C13, acceptance of chained transactions: when acceptance runs on a block
\* with nothing else wrong, an input that refers to an output of an earlier
\* transaction of the same block resolves to that output's value; if every
\* transaction spends no more than its resolved inputs and none spends an
\* immature coinbase the call goes on to the second assertion with no error
\* held, and if some transaction spends more the call fails with
\* Error::Transaction(i, Overspend), i the index from 0 of the first such
\* transaction.
C13_SameBlockChaining ==
    [][ \A c \in Threads :
          (AcceptStep(c) /\ SoundBesidesTransactions(c))
          => /\ \A i \in RestOf(c) : \A k \in DOMAIN TheBlock(c).transactions[i].inputs :
                  \A j \in 1..(i - 1) :
                      LET o == TheBlock(c).transactions[i].inputs[k]
                      IN  ( /\ o.hash = TheBlock(c).transactions[j].hash
                            /\ o.index + 1 \in DOMAIN TheBlock(c).transactions[j].outputs )
                          => AcceptorTransactionOutput(AcceptView(c), TheBlock(c), o, i - 1)
                                = Some(TheBlock(c).transactions[j].outputs[o.index + 1])
             /\ ( /\ \A i \in RestOf(c) : Covered(c, i)
                  /\ \A i \in RestOf(c) : ~SpendsImmatureCoinbase(c, i) )
                => /\ call'[c].pc = "assert_hash"
                   /\ call'[c].phase = "post"
                   /\ call'[c].result = None
             /\ ( /\ \A i \in RestOf(c) : AllInputsResolve(c, i)
                  /\ \E i \in RestOf(c) : ~Covered(c, i) )
                => LET i == CHOOSE i \in RestOf(c) :
                              ~Covered(c, i) /\ \A j \in 2..(i - 1) : Covered(c, j)
                   IN  /\ call'[c].pc = "done"
                       /\ call'[c].result
                            = Some(ErrTransaction(i - 1, TxErr("Overspend"))) ]_vars

\* both tests: 50 -> (30, 20) -> 30 is accepted, and in 50 -> (19, 31) the
\* transaction spending 19 for 20 is the one reported, at index 2
C13_Witness ==
    \E c \in Threads :
        /\ InFlight(c)
        /\ Len(TheBlock(c).transactions) = 4
        /\ TheBlock(c).transactions[3].inputs[1].hash = TheBlock(c).transactions[2].hash
        /\ TheBlock(c).transactions[3].outputs = << <<0, 20>> >>
        /\ TheBlock(c).transactions[2].outputs[1] = <<0, 19>>
        /\ call[c].returned = Some(ErrTransaction(2, TxErr("Overspend")))

C13_WitnessAccepted ==
    \E c \in Threads :
        /\ InFlight(c)
        /\ Len(TheBlock(c).transactions) = 3
        /\ TheBlock(c).transactions[3].inputs[1].hash = TheBlock(c).transactions[2].hash
        /\ TheBlock(c).transactions[3].outputs = << <<0, 30>> >>
        /\ call[c].accepted # None
        /\ call[c].returned = Some(Ok)

(***************************************************************************)
(* Properties of the best-block assertions                                  *)
(***************************************************************************)
AssertReads == <<"best_block", "best_block", "block_hash">>

\* C14: the first assertion stands between pre-verification and
\* block_origin.  The store is read only for a block that passed
\* pre-verification; the call's first three store operations are the
\* assertion's reads and block_origin, fork and acceptance come only after
\* them; and a call whose first assertion compared a best-block hash with a
\* different hash for the best-block number has panicked there, without a
\* result and with block_origin, fork and acceptance never invoked.
C14_AssertBeforeOrigin ==
    \A c \in Threads :
        /\ (InFlight(c) /\ call[c].ops # << >>) => PreVerified(c) = Ok
        /\ (call[c].phase = "pre" /\ call[c].rhs # None /\ call[c].lhs # call[c].rhs[1])
            => /\ call[c].pc = "panicked"
               /\ call[c].panic = Some("assert_eq")
               /\ call[c].ops = AssertReads
               /\ call[c].origin = None
               /\ call[c].forked = None
               /\ call[c].accepted = None
               /\ call[c].result = None
        /\ (call[c].origin # None \/ call[c].forked # None \/ call[c].accepted # None
                \/ Len(call[c].ops) > 3)
            => /\ SubSeq(call[c].ops, 1, 4) = Append(AssertReads, "block_origin")
               /\ call[c].phase = "pre" => call[c].lhs = call[c].rhs[1]

\* the first assertion failed: nothing but its three reads was asked
C14_Witness ==
    \E c \in Threads :
        /\ call[c].pc = "panicked"
        /\ call[c].phase = "pre"
        /\ call[c].panic = Some("assert_eq")
        /\ call[c].lhs # call[c].rhs[1]
        /\ call[c].ops = AssertReads

\* the store reads of an assertion are the last the call made
RecheckedLast(c) ==
    /\ call[c].phase = "post"
    /\ Len(call[c].ops) >= 7
    /\ SubSeq(call[c].ops, Len(call[c].ops) - 2, Len(call[c].ops)) = AssertReads

\* C15, as claimed: every call that ran acceptance and holds its outcome
\* has re-read the best block for the second assertion after acceptance,
\* whether acceptance succeeded or failed.
C15_AlwaysRechecked ==
    \A c \in Threads :
        (Finished(c) /\ call[c].accepted # None) => RecheckedLast(c)

\* C15, amended: a call whose acceptance succeeded makes the second
\* assertion after it and holds Ok only once the assertion's three reads
\* were made and agreed; a call whose acceptance failed holds the acceptor's
\* error at once and never makes the second assertion (its only assertion
\* reads are the first three).
C15_RecheckedOnSuccess ==
    \A c \in Threads :
        /\ (Finished(c) /\ call[c].accepted # None /\ call[c].raised = None)
            => /\ RecheckedLast(c)
               /\ call[c].lhs = call[c].rhs[1]
               /\ call[c].result = Some(Ok)
        /\ (InFlight(c) /\ call[c].result = Some(Ok))
            => (call[c].accepted # None /\ RecheckedLast(c))
        /\ (call[c].accepted # None /\ call[c].raised # None)
            => /\ Finished(c)
               /\ call[c].phase = "pre"
               /\ call[c].result = call[c].raised
               /\ Len(SelectSeq(call[c].ops, LAMBDA o : o = "block_hash")) = 1
        /\ (call[c].pc = "panicked" /\ call[c].phase = "post")
            => /\ call[c].accepted # None
               /\ call[c].panic = Some("assert_eq")
               /\ call[c].lhs # call[c].rhs[1]

\* acceptance failed and the call returned its error with one assertion made
C15_Witness ==
    \E c \in Threads :
        /\ call[c].pc = "returned"
        /\ call[c].accepted # None
        /\ call[c].returned = Some(ErrCoinbaseOverspend(<<5, 0>>, <<5, 1>>))
        /\ call[c].phase = "pre"
        /\ ~RecheckedLast(c)

\* acceptance succeeded and the second assertion was made before Ok
C15_WitnessSuccess ==
    \E c \in Threads :
        /\ call[c].pc = "returned"
        /\ call[c].returned = Some(Ok)
        /\ RecheckedLast(c)

(***************************************************************************)
(* The two side-chain arms                                                  *)
(***************************************************************************)
\* a call with the name of its arm forgotten: which of SideChain and
\* SideChainBecomingCanonChain the origin is, and the position's arm
ArmBlind(r) ==
    [r EXCEPT !.pc = CASE @ \in {"side_fork", "becoming_fork"} -> "fork"
                       [] @ \in {"side_accept", "becoming_accept"} -> "accept"
                       [] OTHER -> @,
              !.origin = IF @ # None /\ @[1].kind \in {"SideChain", "SideChainBecomingCanonChain"}
                         THEN Some([kind |-> "side", origin |-> @[1].origin])
                         ELSE @]

\* what a side-chain arm does, told from the arm-blind call alone: one fork
\* request for the origin, whose error is the call's result; then acceptance
\* of the block against the fork's view at the origin's block number, whose
\* error is the call's result and whose success leads to the second
\* assertion
SideArmStep(r) ==
    LET o == r.origin[1].origin
    IN  IF r.pc = "fork"
        THEN LET f == StoreFork(o)
                 asked == [r EXCEPT !.ops = Append(@, "fork"), !.forked = Some(o)]
             IN  IF f.kind # "Ok"
                 THEN [asked EXCEPT !.pc = "done", !.result = Some(f), !.raised = Some(f)]
                 ELSE [asked EXCEPT !.pc = "accept", !.view = Some(f.fork)]
        ELSE LET a == ChainAcceptorCheck(r.view[1], Network, r.block[1], o.block_number,
                                         Deployments_new, r.limits[1])
                 ran == [r EXCEPT !.block_number = Some(o.block_number),
                                  !.accepted = Some([ view |-> r.view[1],
                                                      block_number |-> o.block_number,
                                                      block |-> r.block[1],
                                                      limits |-> r.limits[1] ])]
             IN  IF a # Ok
                 THEN [ran EXCEPT !.pc = "done", !.result = Some(a), !.raised = Some(a)]
                 ELSE [ran EXCEPT !.pc = "assert_hash", !.phase = "post"]

SideArmAction(c) ==
    \/ ForkSideChain(c)
    \/ AcceptSideChain(c)
    \/ ForkBecomingCanonChain(c)
    \/ AcceptBecomingCanonChain(c)

\* C16: every step of the SideChain arm and of the
\* SideChainBecomingCanonChain arm is the same function of the call's block,
\* limits, origin descriptor and of the store, whichever arm it is: one fork
\* request for that origin, acceptance with the fork's view, the block, the
\* origin's block number and the call's limits, the same outcome; and neither
\* arm changes the store.
C16_SideArmsIdentical ==
    [][ \A c \in Threads :
          SideArmAction(c)
          => /\ ArmBlind(call'[c]) = SideArmStep(ArmBlind(call[c]))
             /\ UNCHANGED storeVars ]_vars

\* a becoming-canon block accepted against a fork, canon left as it was
C16_Witness ==
    \E c \in Threads :
        /\ call[c].pc = "returned"
        /\ call[c].origin # None
        /\ call[c].origin[1].kind = "SideChainBecomingCanonChain"
        /\ call[c].ops = AssertReads \o <<"block_origin", "fork">> \o AssertReads
        /\ call[c].forked = Some(call[c].origin[1].origin)
        /\ call[c].accepted[1].view.kind = "fork"
        /\ call[c].accepted[1].view.origin = call[c].origin[1].origin
        /\ TheBlock(c).hash \notin known

(***************************************************************************)
(* Output resolution of verify_mempool_transaction                          *)
(***************************************************************************)
\* C17: in a call of verify_mempool_transaction whose transaction passes
\* pre-verification, the input is resolved by the caller's prevout provider
\* alone.  An output the provider does not know is reported missing
\* (Input(0)) even when the confirmed chain holds it; an output the provider
\* knows is taken with the provider's value, and the chain store adds only
\* the transaction meta (the maturity of a spent coinbase).
C17_ProviderThenNoop ==
    [][ (~mp.called /\ mp'.called
            /\ MemoryPoolTransactionVerifierCheck(mp'.transaction, mp'.limits) = Ok)
        => LET tx == mp'.transaction
               o == tx.inputs[1]
               pv == ProviderTransactionOutput(mp'.provider, o)
               m == StoreTransactionMeta(o.hash)
           IN  /\ pv = None => mp'.result = TxErrInput(0)
               /\ pv # None
                   => mp'.result =
                        IF m # None /\ m[1].coinbase
                                    /\ mp'.height < m[1].height + COINBASE_MATURITY
                        THEN TxErr("Maturity")
                        ELSE IF ~AmtLe(AmtSum(tx.outputs), pv[1]) THEN TxErr("Overspend")
                        ELSE IF ProviderIsSpent(mp'.provider, o) THEN TxErr("UsingSpentOutput")
                        ELSE Ok ]_vars

\* the confirmed chain holds the output, the provider does not: missing
C17_Witness ==
    /\ mp.called
    /\ ~mp.in_provider /\ mp.in_chain
    /\ mp.transaction.inputs[1] = ChainOut
    /\ mp.result = TxErrInput(0)

\* the provider resolves a confirmed coinbase output and the chain store's
\* meta makes it immature
C17_WitnessMeta ==
    /\ mp.called
    /\ mp.in_provider /\ mp.in_chain
    /\ mp.meta # None
    /\ mp.result = TxErr("Maturity")

(***************************************************************************)
(* The limits of a call                                                     *)
(***************************************************************************)
\* C18: a call keeps the limits it was made with.  In verify the limits of
\* the call never change while it runs, pre-verification decided with them
\* (a call that touched the store passed it under them, a call that did not
\* holds its error under them), and acceptance is given them and its
\* outcome is the acceptor's under them, whatever the node's policy has
\* become meanwhile.  In verify_mempool_transaction the result is that of
\* pre-verification under the call's limits or else of acceptance with the
\* sigops ceiling of the same limits.
C18_OneLimitsPerCall ==
    /\ [](\A c \in Threads :
            /\ (InFlight(c) /\ call[c].ops # << >>) => PreVerified(c) = Ok
            /\ (Finished(c) /\ call[c].ops = << >>)
                => (PreVerified(c) # Ok /\ call[c].result = Some(PreVerified(c)))
            /\ call[c].accepted # None
                => call[c].accepted[1].limits = call[c].limits[1])
    /\ [][ \A c \in Threads :
            /\ (call[c].pc = "idle" /\ call'[c].pc # "idle")
                => call'[c].limits = Some(active)
            /\ (call[c].pc # "idle" /\ call'[c].pc # "idle")
                => call'[c].limits = call[c].limits
            /\ AcceptStep(c)
                => LET a == ChainAcceptorCheck(AcceptView(c), Network, TheBlock(c),
                                               AcceptNumber(c), Deployments_new,
                                               call[c].limits[1])
                   IN  IF a = Ok
                       THEN call'[c].pc = "assert_hash" /\ call'[c].raised = None
                       ELSE call'[c].pc = "done" /\ call'[c].result = Some(a) ]_vars
    /\ [][ (~mp.called /\ mp'.called)
            => /\ mp'.limits = active
               /\ mp'.result =
                    IF MemoryPoolTransactionVerifierCheck(mp'.transaction, mp'.limits) # Ok
                    THEN MemoryPoolTransactionVerifierCheck(mp'.transaction, mp'.limits)
                    ELSE MemoryPoolTransactionAcceptorCheck(
                            <<mp'.provider, NoopStore>>, Network, mp'.transaction,
                            mp'.height, mp'.time, Deployments_new,
                            max_block_sigops(mp'.limits)) ]_vars

\* a block of 22,001 sigops submitted under the raised policy is accepted
\* under it although the node's policy was replaced by LegacyLimits while
\* the call ran
C18_Witness ==
    \E c \in Threads :
        /\ call[c].pc = "returned"
        /\ call[c].limits = Some(RaisedLimits)
        /\ active = LegacyLimits_new
        /\ SigopsSum(TheBlock(c).transactions) > max_block_sigops(active)
        /\ call[c].accepted # None
        /\ call[c].returned = Some(Ok)

\* a transaction of 30,000 sigops accepted under the raised policy
C18_WitnessMempool ==
    /\ mp.called
    /\ mp.limits = RaisedLimits
    /\ mp.transaction.sigops > LEGACY_MAX_BLOCK_SIGOPS
    /\ mp.result = Ok

(***************************************************************************)
(* Two calls at once                                                        *)
(***************************************************************************)
Solo(c) == SoloOutcome(TheBlock(c), call[c].limits[1], call[c].current_time[1])

\* C19: with the store left alone while two verify calls run in any
\* interleaving, each call that asked for a fork holds the fork of its own
\* origin, acceptance of a call ran against that call's own view (the direct
\* view on the canon arm, its own fork on the side-chain arms), and what a
\* call returns, or the panic it ends in, is what verify gives for its block
\* when run alone on that store.
C19_CallsDoNotInterfere ==
    \A c \in Threads :
        /\ (call[c].forked # None /\ call[c].view # None)
            => /\ call[c].forked = Some(call[c].origin[1].origin)
               /\ call[c].view = Some(StoreFork(call[c].origin[1].origin).fork)
        /\ call[c].accepted # None
            => call[c].accepted[1].view =
                 IF call[c].origin[1].kind = "CanonChain" THEN DirectView
                 ELSE StoreFork(call[c].origin[1].origin).fork
        /\ Finished(c) => (call[c].result = Solo(c).result /\ Solo(c).panic = None)
        /\ call[c].pc = "returned" => call[c].returned = Solo(c).result
        /\ call[c].pc = "panicked" => call[c].panic = Solo(c).panic

\* two calls on different branches have returned, each accepted against its
\* own fork, one with an error of acceptance and one with Ok
C19_Witness ==
    /\ call["v1"].pc = "returned" /\ call["v2"].pc = "returned"
    /\ call["v1"].forked # None /\ call["v2"].forked # None
    /\ call["v1"].accepted # None /\ call["v2"].accepted # None
    /\ call["v1"].view # call["v2"].view
    /\ call["v1"].origin[1].kind = "SideChain"
    /\ call["v2"].origin[1].kind = "SideChainBecomingCanonChain"
    /\ call["v1"].returned = Some(ErrTransaction(1, TxErr("Maturity")))
    /\ call["v2"].returned = Some(Ok)

(***************************************************************************)
(* The assertions against a store that is updated meanwhile                 *)
(***************************************************************************)
\* the store at one instant: the best block's hash is the hash its number
\* maps to
StoreConsistent == Some(StoreBestBlock.hash) = StoreBlockHash(StoreBestBlock.number)

\* C20, as claimed: with the store consistent at every instant, no call ends
\* in a failed best-block assertion, before or after acceptance, however
\* its three reads interleave with the owner advancing or reorganizing the
\* tip.
C20_AssertionsHoldOnConsistentStore ==
    /\ StoreConsistent
    /\ \A c \in Threads :
          ~(call[c].pc = "panicked" /\ call[c].panic = Some("assert_eq"))

\* what holds instead: the store is consistent at every instant, and an
\* assertion fails exactly on the three values it read, which may stem from
\* different instants
C20_ReadsMayStraddleAnUpdate ==
    /\ StoreConsistent
    /\ \A c \in Threads :
          (call[c].pc = "panicked" /\ call[c].panic = Some("assert_eq"))
            => /\ call[c].lhs # call[c].rhs[1]
               /\ call[c].lhs # Some(best.hash) \/ call[c].number # Some(best.number)
                    \/ call[c].rhs[1] # StoreBlockHash(best.number)

\* the second assertion failed although the store was consistent throughout
C20_WitnessPost ==
    \E c \in Threads :
        /\ StoreConsistent
        /\ call[c].pc = "panicked"
        /\ call[c].phase = "post"
        /\ call[c].panic = Some("assert_eq")

====
